---------------------------- MODULE Spec2Model ----------------------------
(***************************************************************************)
(* Model of pkg/sqlbuilder (builder.go): the expression and clause layer,  *)
(* the statement assembler Statement.Build, the StatementOptions that      *)
(* append clauses to a Statement, and Go's slice semantics for the         *)
(* Statement.Clauses field (a Statement copy shares the backing array).    *)
(*                                                                         *)
(* A Go string is a sequence of one-character strings.  A panic of a Build *)
(* call is the value Panic, which every concatenation propagates.          *)
(***************************************************************************)
EXTENDS Integers, Sequences, FiniteSets, TLC

VARIABLES
    heap,      \* backing arrays of []Clause slices: address -> sequence of cells
    vars,      \* the program's Statement variables: name -> Statement or NoStatement
    out,       \* strings returned by the Build calls made since the last append
    pc,        \* per thread: position inside Statement.Build
    recv,      \* per thread: the receiver copy s of the running Build call
    builder,   \* per thread: the calls of builder.WriteString made so far
    clauses,   \* per thread: the local slice clauses []*clauseBuilder
    once,      \* per thread: kinds whose sync.Once of onceClauses has fired
    ret,       \* per thread: strings its Build calls returned since the last append
    base,      \* per variable: the clauses the statement held when it was assigned
    added,     \* per variable: the clauses appended through that variable since
    before     \* what Build returned just before the last step of the copy program

vars_all == <<heap, vars, out, pc, recv, builder, clauses, once, ret, base, added, before>>

---------------------------------------------------------------------------
(* Bounds of the model *)

\* clauses a statement of the rendering specification holds at most
MaxClauses == 3
\* options of the Select call of the copy specification at most
MaxCopyClauses == 3
\* options applied to one variable of the copy specification afterwards at most
MaxApplied == 1
\* clauses a statement of the concurrent specification holds at most
MaxConcClauses == 2
\* Build calls each thread makes at most
MaxBuilds == 2

Threads == {"t1", "t2"}

---------------------------------------------------------------------------
(* Strings *)

Panic == <<"panic">>

Cat(a, b) == IF a = Panic \/ b = Panic THEN Panic ELSE a \o b

SP == <<" ">>
S_select == <<"s","e","l","e","c","t">>
S_from == <<"f","r","o","m">>
S_join == <<"j","o","i","n">>
S_left_join == <<"l","e","f","t"," ","j","o","i","n">>
S_where == <<"w","h","e","r","e">>
S_group_by == <<"g","r","o","u","p"," ","b","y">>
S_order_by == <<"o","r","d","e","r"," ","b","y">>
S_unknownClause == <<"_","u","n","k","n","o","w","n","C","l","a","u","s","e">>
S_and == <<" ","a","n","d"," ">>
S_on == <<" ","o","n"," ">>
S_as == <<" ","a","s"," ">>
S_is_null == <<"i","s"," ","n","u","l","l">>

defaultPlaceholder == <<"?">>
defaultExpressionDelimeter == <<",", " ">>

\* strings.TrimSpace: leading and trailing white space removed
RECURSIVE TrimLeft(_)
TrimLeft(s) ==
    IF s # <<>> /\ Head(s) = " " THEN TrimLeft(Tail(s)) ELSE s

RECURSIVE TrimRight(_)
TrimRight(s) ==
    IF s # <<>> /\ s[Len(s)] = " " THEN TrimRight(SubSeq(s, 1, Len(s) - 1)) ELSE s

\* TrimSpace left out: the builder's string returned as written
NoTrim(s) == s

TrimSpace(s) == IF s = Panic THEN Panic ELSE TrimRight(TrimLeft(s))

---------------------------------------------------------------------------
(* Clause kinds: the iota values of the const block, used as slice index *)

unknownClause == 0
FromClause == 1
JoinClause == 2
LeftJoinClause == 3
WhereClause == 4
GroupByClause == 5
OrderByClause == 6

\* len(_ClauseKind_index): the index array stringer generates for the const
\* block holds one entry per constant and one more, so eight for the seven
\* constants; the length decides only whether a Kind() of a Clause implemented
\* outside the package is a valid index
ClauseKindIndexLen == 8

\* ClauseKind.String() under -linecomment: the comment of each constant
KindString(kind) ==
    CASE kind = FromClause -> S_from
      [] kind = JoinClause -> S_join
      [] kind = LeftJoinClause -> S_left_join
      [] kind = WhereClause -> S_where
      [] kind = GroupByClause -> S_group_by
      [] kind = OrderByClause -> S_order_by
      [] kind = unknownClause -> S_unknownClause

SelectStatement == 1

\* StatementKind.String() under -linecomment
StatementKindString(kind) ==
    CASE kind = SelectStatement -> S_select

---------------------------------------------------------------------------
(* Expressions and clauses: the values the constructors return *)

Nil == [t |-> "nil"]

Ref(name) == [t |-> "ref", name |-> name]
Const(value) == [t |-> "const", value |-> value]
As(expr, alias) == [t |-> "as", expr |-> expr, alias |-> alias]
Wrap(expr) == [t |-> "wrap", expr |-> expr]
Predicate(op, left, right) == [t |-> "pred", op |-> op, left |-> left, right |-> right]
Equals(left, right) == Predicate(<<"=">>, left, right)
IsNull(expr) == Predicate(S_is_null, expr, Nil)
Placeholder == [t |-> "placeholder"]
MultiExpression(delim, exprs) == [t |-> "multi", Delimeter |-> delim, Expressions |-> exprs]
Columns(cols) == MultiExpression(defaultExpressionDelimeter, cols)

fromClause(tables) == [t |-> "from", tables |-> tables]
joinClause(table, predicates) == [t |-> "join", table |-> table, predicates |-> predicates]
leftJoinClause(table, predicates) == [t |-> "leftjoin", table |-> table, predicates |-> predicates]
whereClause(predicates) == [t |-> "where", predicates |-> predicates]
groupByClause(columns) == [t |-> "groupby", columns |-> columns]
orderByClause(columns) == [t |-> "orderby", columns |-> columns]
\* a Clause implemented outside the package: Kind() is any ClauseKind
customClause(kind, text) == [t |-> "custom", kind |-> kind, text |-> text]

\* the Kind method of each clause type
Kind(c) ==
    CASE c.t = "from" -> FromClause
      [] c.t = "join" -> JoinClause
      [] c.t = "leftjoin" -> LeftJoinClause
      [] c.t = "where" -> WhereClause
      [] c.t = "groupby" -> GroupByClause
      [] c.t = "orderby" -> OrderByClause
      [] c.t = "custom" -> c.kind

\* Delimeter with " " for the group by kind
DelimeterSpaceForGroupBy(c) ==
    CASE c.t = "from" -> <<",", " ">>
      [] c.t = "join" -> SP
      [] c.t = "leftjoin" -> SP
      [] c.t = "where" -> S_and
      [] c.t = "groupby" -> SP
      [] c.t = "orderby" -> <<",", " ">>
      [] c.t = "custom" -> SP

\* Delimeter with ", " for the where kind
DelimeterCommaForWhere(c) ==
    CASE c.t = "from" -> <<",", " ">>
      [] c.t = "join" -> SP
      [] c.t = "leftjoin" -> SP
      [] c.t = "where" -> <<",", " ">>
      [] c.t = "groupby" -> <<",", " ">>
      [] c.t = "orderby" -> <<",", " ">>
      [] c.t = "custom" -> SP

\* the Delimeter method of each clause type
Delimeter(c) ==
    CASE c.t = "from" -> <<",", " ">>
      [] c.t = "join" -> SP
      [] c.t = "leftjoin" -> SP
      [] c.t = "where" -> S_and
      [] c.t = "groupby" -> <<",", " ">>
      [] c.t = "orderby" -> <<",", " ">>
      [] c.t = "custom" -> SP

\* the clauses of kind k among cls, in their order
OfKind(cls, k) == SelectSeq(cls, LAMBDA c : Kind(c) = k)

---------------------------------------------------------------------------
(* Slices of Clause: Statement.Clauses is a slice header over a backing array *)

NilSlice == [ptr |-> 0, len |-> 0, cap |-> 0]
NilCell == [t |-> "nil"]

\* the slice sl as a range loop reads it: the first len cells of its array
ClausesOfIn(h, sl) ==
    IF sl.len = 0 THEN <<>> ELSE SubSeq(h[sl.ptr], 1, sl.len)

\* s.Clauses in the current heap
ClausesOf(s) == ClausesOfIn(heap, s.Clauses)

\* append(sl, c) on the heap h: in place when the capacity allows, else a new
\* array of doubled capacity (Go's growth for small slices) holding a copy
AppendClause(h, sl, c) ==
    IF sl.len < sl.cap
    THEN [heap |-> [h EXCEPT ![sl.ptr][sl.len + 1] = c],
          slice |-> [sl EXCEPT !.len = sl.len + 1]]
    ELSE LET newcap == IF sl.cap = 0 THEN 1 ELSE sl.cap + sl.cap
             arr == [i \in 1..newcap |->
                        IF i <= sl.len THEN h[sl.ptr][i]
                        ELSE IF i = sl.len + 1 THEN c ELSE NilCell]
         IN [heap |-> Append(h, arr),
             slice |-> [ptr |-> Len(h) + 1, len |-> sl.len + 1, cap |-> newcap]]

---------------------------------------------------------------------------
(* Statement.Build and the Build methods of expressions and clauses *)

\* SimpleListExpression.Build: strings.Join(Values, Delimeter)
RECURSIVE SimpleListBuild(_, _)
SimpleListBuild(values, delim) ==
    IF \E i \in 1..Len(values) : values[i] = Panic THEN Panic
    ELSE IF values = <<>> THEN <<>>
    ELSE IF Len(values) = 1 THEN values[1]
    ELSE values[1] \o delim \o SimpleListBuild(Tail(values), delim)

\* onceClauses without the entry of _WhereClause
OnceClausesFromOnly(kind) ==
    IF kind = SelectStatement THEN {FromClause} ELSE {}

\* the keys of the map onceClauses: the statement kind's keyword-once kinds
OnceClauses(kind) ==
    IF kind = SelectStatement THEN {WhereClause, FromClause} ELSE {}

\* onceClauses kept from call to call (a package-level map)
KeepOnce(prev) == prev

\* the sync.Once values of a call: allocated new by the call, none has fired,
\* whatever fired in the call before (prev)
FreshOnce(prev) == {}

\* the groups indexed from the end of the slice
SlotIndexReversed(kind) == ClauseKindIndexLen - 1 - kind

\* the index of a kind's group in the local slice clauses: clauses[kind]
SlotIndex(kind) == kind

NilGroup == [set |-> FALSE, kind |-> 0, Delimeter |-> <<>>, Expressions |-> <<>>]

NoGroups == [panic |-> FALSE, slots |-> [i \in 0..(ClauseKindIndexLen - 1) |-> NilGroup]]

\* the loop over s.Clauses: a clauseBuilder per kind, created at the kind's
\* first clause with that clause's delimiter; an index past the slice panics
RECURSIVE GroupClauses(_, _)
GroupClauses(g, cls) ==
    IF cls = <<>> \/ g.panic THEN g
    ELSE LET clause == Head(cls)
             kind == Kind(clause)
             i == SlotIndex(kind)
         IN IF i < 0 \/ i >= ClauseKindIndexLen
            THEN [g EXCEPT !.panic = TRUE]
            ELSE LET cb == IF g.slots[i].set THEN g.slots[i]
                           ELSE [set |-> TRUE, kind |-> kind,
                                 Delimeter |-> Delimeter(clause), Expressions |-> <<>>]
                 IN GroupClauses(
                        [g EXCEPT !.slots[i] =
                            [cb EXCEPT !.Expressions = Append(cb.Expressions, clause)]],
                        Tail(cls))

\* the clauses cls ordered by kind, clauses of one kind in their order
SortedByKind(cls) ==
    LET F[k \in 0..ClauseKindIndexLen] ==
            IF k = ClauseKindIndexLen THEN <<>> ELSE OfKind(cls, k) \o F[k + 1]
    IN F[0]

\* the clauses ordered by sorting s.Clauses, which writes the shared array
HeapSortedInPlace(h, s) ==
    IF s.Clauses.len = 0 THEN h
    ELSE [h EXCEPT ![s.Clauses.ptr] =
             SortedByKind(SubSeq(h[s.Clauses.ptr], 1, s.Clauses.len))
             \o SubSeq(h[s.Clauses.ptr], s.Clauses.len + 1, s.Clauses.cap)]

\* the heap after the loop over s.Clauses: the loop reads the clauses and
\* appends them to the Expressions of the call's own clauseBuilders
HeapAfterGrouping(h, s) == h

\* Predicate without the test: right.Build() is always called
PredicateNoNilCheck(right) == TRUE

\* Predicate's test right != nil
PredicateHasRight(right) == right # Nil

RECURSIVE Build(_)
RECURSIVE StatementBuild(_, _, _)

BuildEach(es) == [i \in 1..Len(es) |-> Build(es[i])]

\* joinClause.Build and leftJoinClause.Build
JoinBuild(c) ==
    Cat(KindString(Kind(c)) \o SP,
        Cat(Build(c.table),
            Cat(S_on, SimpleListBuild(BuildEach(c.predicates), S_and))))

\* groupByClause.Build and orderByClause.Build
ColumnsBuild(c) ==
    KindString(Kind(c)) \o SP \o SimpleListBuild(c.columns, defaultExpressionDelimeter)

\* the calls of builder.WriteString before the clause loop
HeaderWrites(s) ==
    <<[by |-> "statement", kind |-> 0, text |-> StatementKindString(s.Kind) \o SP]>>
    \o [i \in 1..Len(s.Expressions) |->
           [by |-> "expr", kind |-> 0, text |-> Cat(Build(s.Expressions[i]), SP)]]

\* the loop over the groups, from slot i on: the keyword of a keyword-once kind
\* through its sync.Once, then the group's MultiExpression and a space
RECURSIVE EmitGroups(_, _, _, _)
EmitGroups(slots, i, onceKinds, done) ==
    IF i >= ClauseKindIndexLen THEN [writes |-> <<>>, done |-> done]
    ELSE IF ~slots[i].set THEN EmitGroups(slots, i + 1, onceKinds, done)
    ELSE LET group == slots[i]
             kind == group.kind
             fire == kind \in onceKinds /\ kind \notin done
             kw == IF fire
                   THEN <<[by |-> "keyword", kind |-> kind, text |-> KindString(kind) \o SP]>>
                   ELSE <<>>
             body == [by |-> "group", kind |-> kind,
                      text |-> Cat(SimpleListBuild(BuildEach(group.Expressions),
                                                   group.Delimeter), SP)]
             rest == EmitGroups(slots, i + 1, onceKinds,
                                IF fire THEN done \cup {kind} ELSE done)
         IN [writes |-> kw \o <<body>> \o rest.writes, done |-> rest.done]

\* builder.String(): the written texts in order
RECURSIVE Flatten(_)
Flatten(writes) ==
    IF writes = <<>> THEN <<>> ELSE Cat(Head(writes).text, Flatten(Tail(writes)))

\* the calls of builder.WriteString of one Build call, in order
StatementWrites(kind, exprs, cls) ==
    LET s == [Kind |-> kind, Expressions |-> exprs]
        g == GroupClauses(NoGroups, cls)
    IN [panic |-> g.panic,
        writes |-> IF g.panic THEN <<>>
                   ELSE HeaderWrites(s)
                        \o EmitGroups(g.slots, 0, OnceClauses(kind), FreshOnce({})).writes]

\* Statement.Build on a statement of the given kind, expressions and clauses
StatementBuild(kind, exprs, cls) ==
    LET w == StatementWrites(kind, exprs, cls)
    IN IF w.panic THEN Panic ELSE TrimSpace(Flatten(w.writes))

Build(e) ==
    CASE e.t = "nil" -> Panic
      [] e.t = "ref" -> e.name
      [] e.t = "const" -> <<"'">> \o e.value \o <<"'">>
      [] e.t = "as" -> Cat(Build(e.expr), S_as \o Build(Const(e.alias)))
      [] e.t = "wrap" -> Cat(<<"(">>, Cat(Build(e.expr), <<")">>))
      [] e.t = "pred" ->
            LET s == Cat(Build(e.left), SP \o e.op)
            IN IF PredicateHasRight(e.right) THEN Cat(s, Cat(SP, Build(e.right))) ELSE s
      [] e.t = "placeholder" -> defaultPlaceholder
      [] e.t = "multi" -> SimpleListBuild(BuildEach(e.Expressions), e.Delimeter)
      [] e.t = "from" -> SimpleListBuild(BuildEach(e.tables), defaultExpressionDelimeter)
      [] e.t = "join" -> JoinBuild(e)
      [] e.t = "leftjoin" -> JoinBuild(e)
      [] e.t = "where" -> Build(Wrap(e.predicates))
      [] e.t = "groupby" -> ColumnsBuild(e)
      [] e.t = "orderby" -> ColumnsBuild(e)
      [] e.t = "custom" -> e.text
      [] e.t = "stmt" -> StatementBuild(e.Kind, e.Expressions, ClausesOf(e))
      \* a *Statement is an Expression too: Build through the pointer
      [] e.t = "stmtptr" -> StatementBuild(vars[e.var].Kind, vars[e.var].Expressions,
                                           ClausesOf(vars[e.var]))

---------------------------------------------------------------------------
(* Select and the StatementOptions.  An option is the closure over the     *)
(* clause it appends, so it is modelled by that clause.                    *)

From(tables) == fromClause(tables)
Join(table, predicates) == joinClause(table, predicates)
LeftJoin(table, predicates) == leftJoinClause(table, predicates)
Where(predicates) == whereClause(MultiExpression(S_and, predicates))
GroupBy(cols) == groupByClause(cols)
OrderBy(cols) == orderByClause(cols)

NoStatement == [t |-> "none"]
VarNames == {"st", "a", "outer"}

\* opt(&st) for each option in turn: st.Clauses = append(st.Clauses, clause)
RECURSIVE ApplyOptions(_, _, _)
ApplyOptions(st, h, opts) ==
    IF opts = <<>> THEN [st |-> st, heap |-> h]
    ELSE LET r == AppendClause(h, st.Clauses, Head(opts))
         IN ApplyOptions([st EXCEPT !.Clauses = r.slice], r.heap, Tail(opts))

Select(columns, opts, h) ==
    ApplyOptions([t |-> "stmt", Kind |-> SelectStatement,
                  Expressions |-> <<columns>>, Clauses |-> NilSlice], h, opts)

---------------------------------------------------------------------------
(* Inputs *)

BoundedSeq(S, n) == UNION {[1..k -> S] : k \in 0..n}

N_a == <<"a">>
N_b == <<"b">>
N_t == <<"t">>
N_u == <<"u">>
N_x == <<"x">>
N_y == <<"y">>
N_star == <<"*">>

P1 == Equals(Ref(N_a), Placeholder)
P2 == IsNull(Ref(N_b))
PNilLeft == Equals(Nil, Placeholder)

\* well-formed options of all six kinds
Options ==
    { From(<<Ref(N_t)>>), Join(Ref(N_u), <<P1>>), LeftJoin(Ref(N_u), <<P2>>),
      Where(<<P1>>), Where(<<P2, P1>>), GroupBy(<<N_x>>), GroupBy(<<N_y>>),
      OrderBy(<<N_x>>) }

Projections == { Ref(N_star), Columns(<<Ref(N_a), Ref(N_b)>>) }

\* options and projections of malformed construction
MalformedOptions ==
    { From(<<Ref(N_t)>>), From(<<>>), Join(Nil, <<P1>>), Join(Ref(N_u), <<>>),
      Where(<<P2>>), Where(<<PNilLeft>>), GroupBy(<<>>), OrderBy(<<N_x>>),
      customClause(9, <<"c">>) }

MalformedProjections == { Ref(N_star), Ref(<<>>), Columns(<<>>), Nil }

---------------------------------------------------------------------------
(* Actions on one statement variable, Build as one step *)

Idle == [t \in Threads |-> "idle"]
NoRecv == [t \in Threads |-> NoStatement]
NoWrites == [t \in Threads |-> <<>>]
NoLocalGroups == [t \in Threads |-> NoGroups]
NoOnce == [t \in Threads |-> {}]
NoBase == [v \in VarNames |-> <<>>]

threadVars == <<pc, recv, builder, clauses, once>>
NoBefore == [var |-> "", self |-> <<>>, outer |-> <<>>]

copyVars == <<base, added, before>>

Init ==
    /\ heap = <<>>
    /\ vars = [v \in VarNames |-> NoStatement]
    /\ out = <<>>
    /\ pc = Idle
    /\ recv = NoRecv
    /\ builder = NoWrites
    /\ clauses = NoLocalGroups
    /\ once = NoOnce
    /\ ret = NoWrites
    /\ base = NoBase
    /\ added = NoBase
    /\ before = NoBefore

\* st := Select(columns, opts...)
SelectCall(projs, optset, maxlen) ==
    /\ vars["st"] = NoStatement
    /\ \E columns \in projs, opts \in BoundedSeq(optset, maxlen) :
          LET r == Select(columns, opts, heap)
          IN /\ vars' = [vars EXCEPT !["st"] = r.st]
             /\ heap' = r.heap
    /\ out' = <<>>
    /\ ret' = NoWrites
    /\ UNCHANGED <<threadVars, copyVars>>

\* opt(&st): one more option applied to the statement after Select returned
ApplyOption(optset, maxlen) ==
    /\ vars["st"] # NoStatement
    /\ \A t \in Threads : pc[t] = "idle"
    /\ vars["st"].Clauses.len < maxlen
    /\ \E opt \in optset :
          LET r == ApplyOptions(vars["st"], heap, <<opt>>)
          IN /\ vars' = [vars EXCEPT !["st"] = r.st]
             /\ heap' = r.heap
    /\ out' = <<>>
    /\ ret' = NoWrites
    /\ UNCHANGED <<threadVars, copyVars>>

\* st.Build()
BuildCall ==
    /\ vars["st"] # NoStatement
    /\ out' = <<Build(vars["st"])>>
    /\ UNCHANGED <<heap, vars, ret, threadVars, copyVars>>

Next ==
    \/ SelectCall(Projections, Options, MaxClauses)
    \/ ApplyOption(Options, MaxClauses)
    \/ BuildCall

Spec == Init /\ [][Next]_vars_all

NextMalformed ==
    \/ SelectCall(MalformedProjections, MalformedOptions, MaxClauses)
    \/ ApplyOption(MalformedOptions, MaxClauses)
    \/ BuildCall

SpecMalformed == Init /\ [][NextMalformed]_vars_all

---------------------------------------------------------------------------
(* Definitions the properties share *)

St == vars["st"]
Built == out # <<>>

KindOrder == <<FromClause, JoinClause, LeftJoinClause, WhereClause, GroupByClause,
               OrderByClause>>

\* number of places where pat occurs in s
CountSub(s, pat) ==
    Cardinality({i \in 1..(Len(s) - Len(pat) + 1) : SubSeq(s, i, i + Len(pat) - 1) = pat})

RECURSIVE CatAll(_)
CatAll(texts) == IF texts = <<>> THEN <<>> ELSE Cat(Head(texts), CatAll(Tail(texts)))

\* what a Build of the clauses of kind k alone writes after the header
GroupTextOf(cls, k) ==
    LET g == GroupClauses(NoGroups, OfKind(cls, k))
    IN Flatten(EmitGroups(g.slots, 0, OnceClauses(SelectStatement), {}).writes)

\* the header, then the text of each kind in the fixed kind order, with the
\* text of kind k given, trimmed
ExpectedWith(s, k, text) ==
    TrimRight(TrimLeft(Cat(Flatten(HeaderWrites(s)),
        CatAll([i \in 1..Len(KindOrder) |->
                   IF KindOrder[i] = k THEN text
                   ELSE GroupTextOf(ClausesOf(s), KindOrder[i])]))))

\* C1: whatever the order in which the options were applied, Build emits the
\* clause groups in the order from, join, left join, where, group by, order by:
\* the output is the header followed by each kind's group in that order.
C1_KindOrder ==
    Built => out[1] = ExpectedWith(St, unknownClause, <<>>)

\* C1 witness: a built statement whose first option is an OrderBy and whose
\* later options include a Where and then a From.
C1_Witness ==
    /\ Built
    /\ Len(ClausesOf(St)) = 3
    /\ Kind(ClausesOf(St)[1]) = OrderByClause
    /\ Kind(ClausesOf(St)[2]) = WhereClause
    /\ Kind(ClausesOf(St)[3]) = FromClause

\* the parenthesized group of each where clause, in call order
WhereGroups(cls) ==
    LET W == OfKind(cls, WhereClause)
    IN [i \in 1..Len(W) |->
           <<"(">> \o SimpleListBuild(BuildEach(W[i].predicates.Expressions), S_and)
                   \o <<")">>]

\* C2: with k >= 1 Where options the output holds one where clause: the keyword
\* once, then the k parenthesized groups in call order joined by " and ", each
\* group holding its call's predicates in argument order joined by " and ".
C2_WhereGroups ==
    (Built /\ OfKind(ClausesOf(St), WhereClause) # <<>>) =>
        /\ out[1] = ExpectedWith(St, WhereClause,
                        S_where \o SP
                        \o SimpleListBuild(WhereGroups(ClausesOf(St)), S_and) \o SP)
        /\ CountSub(out[1], S_where) = 1
        /\ CountSub(out[1], <<"(">>) = Len(OfKind(ClausesOf(St), WhereClause))

\* C2 witness: a built statement with two Where options, the two-predicate one
\* first, and an option of another kind between them.
C2_Witness ==
    /\ Built
    /\ Len(ClausesOf(St)) = 3
    /\ ClausesOf(St)[1] = Where(<<P2, P1>>)
    /\ Kind(ClausesOf(St)[2]) = GroupByClause
    /\ ClausesOf(St)[3] = Where(<<P1>>)

\* keywords the assembler itself wrote for kind k in a Build of s
KeywordWrites(s, k) ==
    LET w == StatementWrites(s.Kind, s.Expressions, ClausesOf(s)).writes
    IN Cardinality({i \in 1..Len(w) : w[i].by = "keyword" /\ w[i].kind = k})

\* C3: the assembler writes the keyword of from and of where exactly once when
\* the statement holds clauses of that kind and never otherwise, and writes no
\* keyword for join, left join, group by and order by: those appear in the
\* output once per clause, from the clause's own rendering.
C3_KeywordOnce ==
    Built =>
        LET cls == ClausesOf(St)
            n(k) == Len(OfKind(cls, k))
        IN /\ \A k \in {FromClause, WhereClause} :
                 /\ KeywordWrites(St, k) = IF n(k) > 0 THEN 1 ELSE 0
                 /\ CountSub(out[1], KindString(k)) = IF n(k) > 0 THEN 1 ELSE 0
           /\ \A k \in {JoinClause, LeftJoinClause, GroupByClause, OrderByClause} :
                 KeywordWrites(St, k) = 0
           /\ CountSub(out[1], S_left_join) = n(LeftJoinClause)
           /\ CountSub(out[1], S_join) = n(JoinClause) + n(LeftJoinClause)
           /\ CountSub(out[1], S_group_by) = n(GroupByClause)
           /\ CountSub(out[1], S_order_by) = n(OrderByClause)

\* C3 witness: a built statement with two From options, a join and no Where.
C3_Witness ==
    /\ Built
    /\ Len(OfKind(ClausesOf(St), FromClause)) = 2
    /\ Len(OfKind(ClausesOf(St), JoinClause)) = 1
    /\ OfKind(ClausesOf(St), WhereClause) = <<>>

\* the text of the group by group when its clauses are joined by delim
GroupByText(cls, delim) ==
    LET G == OfKind(cls, GroupByClause)
    IN SimpleListBuild(
           [i \in 1..Len(G) |->
               S_group_by \o SP \o SimpleListBuild(G[i].columns, <<",", " ">>)],
           delim) \o SP

TwoGroupBy == Built /\ Len(OfKind(ClausesOf(St), GroupByClause)) = 2

\* C9 as amended: with GroupBy applied twice the output holds two group by
\* keywords, one per call in call order, and the two rendered clauses are
\* joined by ", " (the delimiter of the group by kind).
C9_GroupByTwice ==
    TwoGroupBy =>
        /\ out[1] = ExpectedWith(St, GroupByClause, GroupByText(ClausesOf(St), <<",", " ">>))
        /\ CountSub(out[1], S_group_by) = 2

\* C9 as stated: the two rendered group by clauses are joined by a single space.
C9_Original ==
    TwoGroupBy =>
        out[1] = ExpectedWith(St, GroupByClause, GroupByText(ClausesOf(St), SP))

\* C9 witness: GroupBy("y") applied before GroupBy("x"), then built.
C9_Witness ==
    /\ TwoGroupBy
    /\ OfKind(ClausesOf(St), GroupByClause) = <<GroupBy(<<N_y>>), GroupBy(<<N_x>>)>>

---------------------------------------------------------------------------
(* Malformed construction *)

\* a nil Expression in a place whose Build method is called
RECURSIVE HasNil(_)
HasNil(e) ==
    CASE e.t = "nil" -> TRUE
      [] e.t \in {"as", "wrap"} -> HasNil(e.expr)
      [] e.t = "pred" -> HasNil(e.left) \/ (e.right # Nil /\ HasNil(e.right))
      [] e.t = "multi" -> \E i \in 1..Len(e.Expressions) : HasNil(e.Expressions[i])
      [] e.t = "from" -> \E i \in 1..Len(e.tables) : HasNil(e.tables[i])
      [] e.t \in {"join", "leftjoin"} ->
            HasNil(e.table) \/ \E i \in 1..Len(e.predicates) : HasNil(e.predicates[i])
      [] e.t = "where" -> HasNil(e.predicates)
      [] OTHER -> FALSE

NilRendered(s) ==
    \/ \E i \in 1..Len(s.Expressions) : HasNil(s.Expressions[i])
    \/ \E i \in 1..Len(ClausesOf(s)) : HasNil(ClausesOf(s)[i])

KindOutOfRange(s) ==
    \E i \in 1..Len(ClausesOf(s)) :
        Kind(ClausesOf(s)[i]) \notin 0..(ClauseKindIndexLen - 1)

HasSpaceAtEnds(s) == s # <<>> /\ (s[1] = " " \/ s[Len(s)] = " ")
HasDoubledSpace(s) == \E i \in 1..(Len(s) - 1) : s[i] = " " /\ s[i + 1] = " "

\* no name and no column, table, join-predicate or group-by/order-by list of
\* the statement is empty
NoEmptyList(s) ==
    /\ \A i \in 1..Len(s.Expressions) :
          /\ s.Expressions[i].t = "multi" => s.Expressions[i].Expressions # <<>>
          /\ s.Expressions[i].t = "ref" => s.Expressions[i].name # <<>>
    /\ \A i \in 1..Len(ClausesOf(s)) :
          LET c == ClausesOf(s)[i]
          IN /\ c.t = "from" => c.tables # <<>>
             /\ c.t \in {"join", "leftjoin"} => c.predicates # <<>>
             /\ c.t \in {"groupby", "orderby"} => c.columns # <<>>
             /\ c.t = "custom" => c.text # <<>>

\* C8 as stated: the output has no leading or trailing white space and never
\* two consecutive spaces, also when a fragment renders as empty text.
C8_Original ==
    (Built /\ out[1] # Panic) => (~HasSpaceAtEnds(out[1]) /\ ~HasDoubledSpace(out[1]))

\* C8 as amended: the output has no leading or trailing white space; it has no
\* two consecutive spaces when no name and no column, table, join-predicate or
\* group-by/order-by column list of the statement is empty.
C8_TrimmedSingleSpaced ==
    (Built /\ out[1] # Panic) =>
        /\ ~HasSpaceAtEnds(out[1])
        /\ NoEmptyList(St) => ~HasDoubledSpace(out[1])

\* C8 witness: a built statement of three clauses without an empty list.
C8_Witness ==
    /\ Built
    /\ out[1] # Panic
    /\ NoEmptyList(St)
    /\ Len(ClausesOf(St)) = 3
    /\ Kind(ClausesOf(St)[1]) = WhereClause

---------------------------------------------------------------------------
(* Build calls of several threads on the statement st, a loop of Build per *)
(* step.  Clauses are appended only while no Build call is running.        *)

ConcOptions ==
    { From(<<Ref(N_t)>>), Where(<<P1>>), GroupBy(<<N_x>>), OrderBy(<<N_y>>) }

\* the call s.Build() starts: the receiver is copied, the local structures are
\* made and the statement keyword and the expressions are written
BuildStart(t) ==
    /\ pc[t] = "idle"
    /\ vars["st"] # NoStatement
    /\ Len(ret[t]) < MaxBuilds
    /\ recv' = [recv EXCEPT ![t] = vars["st"]]
    /\ builder' = [builder EXCEPT ![t] = HeaderWrites(vars["st"])]
    /\ clauses' = [clauses EXCEPT ![t] = NoGroups]
    /\ once' = [once EXCEPT ![t] = FreshOnce(once[t])]
    /\ pc' = [pc EXCEPT ![t] = "grouping"]
    /\ UNCHANGED <<heap, vars, out, ret, copyVars>>

\* the loop over s.Clauses
BuildGroup(t) ==
    /\ pc[t] = "grouping"
    /\ clauses' = [clauses EXCEPT ![t] = GroupClauses(clauses[t], ClausesOf(recv[t]))]
    /\ heap' = HeapAfterGrouping(heap, recv[t])
    /\ pc' = [pc EXCEPT ![t] = "emitting"]
    /\ UNCHANGED <<vars, out, recv, builder, once, ret, copyVars>>

\* the loop over the groups and the return of the trimmed string
BuildEmit(t) ==
    /\ pc[t] = "emitting"
    /\ LET r == EmitGroups(clauses[t].slots, 0, OnceClauses(recv[t].Kind), once[t])
           text == IF clauses[t].panic THEN Panic
                   ELSE TrimSpace(Flatten(builder[t] \o r.writes))
       IN /\ ret' = [ret EXCEPT ![t] = Append(ret[t], text)]
          /\ once' = [once EXCEPT ![t] = r.done]
    /\ recv' = [recv EXCEPT ![t] = NoStatement]
    /\ builder' = [builder EXCEPT ![t] = <<>>]
    /\ clauses' = [clauses EXCEPT ![t] = NoGroups]
    /\ pc' = [pc EXCEPT ![t] = "idle"]
    /\ UNCHANGED <<heap, vars, out, copyVars>>

NextConc ==
    \/ SelectCall(Projections, ConcOptions, MaxConcClauses)
    \/ ApplyOption(ConcOptions, MaxConcClauses)
    \/ \E t \in Threads : BuildStart(t)
    \/ \E t \in Threads : BuildGroup(t)
    \/ \E t \in Threads : BuildEmit(t)

SpecConc == Init /\ [][NextConc]_vars_all

\* Kind, Expressions and Clauses (length and every element) of the statement
Content(s) ==
    IF s = NoStatement THEN <<>>
    ELSE <<s.Kind, s.Expressions, s.Clauses.len, ClausesOf(s)>>

\* C4: a step of a Build call, whatever the other calls in progress, leaves
\* Kind, Expressions and Clauses of the statement as they were, and leaves the
\* grouping structures and the builder of every other call as they were.
C4_BuildReadsOnly ==
    [][pc' # pc =>
          /\ Content(vars["st"])' = Content(vars["st"])
          /\ \A t \in Threads :
                pc'[t] = pc[t] =>
                    (clauses'[t] = clauses[t] /\ builder'[t] = builder[t]
                     /\ once'[t] = once[t])]_vars_all

\* C4 witness: one thread has returned from a Build of a statement whose
\* clauses are not in kind order and is emitting in its second call while the
\* other thread is grouping.
C4_Witness ==
    /\ pc["t1"] = "emitting"
    /\ pc["t2"] = "grouping"
    /\ Len(ret["t1"]) = 1
    /\ Len(ClausesOf(St)) = 2
    /\ Kind(ClausesOf(St)[1]) = OrderByClause
    /\ Kind(ClausesOf(St)[2]) = FromClause

\* C5: the Build calls made on a statement while no clause is appended to it
\* all return the same string, two successive calls of one thread included.
C5_Idempotent ==
    \A t, u \in Threads :
        \A i \in 1..Len(ret[t]), j \in 1..Len(ret[u]) : ret[t][i] = ret[u][j]

\* C5 witness: a thread called Build twice on a statement with a from and a
\* where clause, and the other thread called it in between.
C5_Witness ==
    /\ Len(ret["t1"]) = 2
    /\ Len(ret["t2"]) = 1
    /\ pc["t2"] = "idle"
    /\ OfKind(ClausesOf(St), FromClause) # <<>>
    /\ OfKind(ClausesOf(St), WhereClause) # <<>>

---------------------------------------------------------------------------
(* Copies of a statement and subselects: st := Select(...), a := st,       *)
(* outer := Select(Ref("*"), FromSubselect(st, as)), and options applied   *)
(* to st and to a afterwards.  Build(vars[x]) is the string x.Build()      *)
(* returns in a state.                                                     *)

CopyOptions == { Where(<<P1>>), OrderBy(<<N_x>>) }
Aliases == { <<>>, <<"s">> }

\* the closure holding a pointer to the variable (FromSubselect(sub *Statement))
CaptureByPointer(name) == [t |-> "stmtptr", var |-> name]

\* the argument sub of FromSubselect(sub, as): the Statement value of the
\* variable, copied into the parameter and from there into Wrap's closure
CaptureStatement(name) == vars[name]

FromSubselect(sub, as) ==
    LET expr == Wrap(sub)
    IN From(<<IF as # <<>> THEN As(expr, as) ELSE expr>>)

\* st := Select(Ref("*"), opts...)
SelectSub ==
    /\ vars["st"] = NoStatement
    /\ \E opts \in BoundedSeq(CopyOptions, MaxCopyClauses) :
          LET r == Select(Ref(N_star), opts, heap)
          IN /\ vars' = [vars EXCEPT !["st"] = r.st]
             /\ heap' = r.heap
             /\ base' = [base EXCEPT !["st"] = opts]
    /\ before' = NoBefore
    /\ UNCHANGED <<added, out, ret, threadVars>>

\* a := st
CopyStatement ==
    /\ vars["st"] # NoStatement
    /\ vars["a"] = NoStatement
    /\ vars' = [vars EXCEPT !["a"] = vars["st"]]
    /\ base' = [base EXCEPT !["a"] = ClausesOf(vars["st"])]
    /\ before' = NoBefore
    /\ UNCHANGED <<heap, added, out, ret, threadVars>>

\* o := outer.Build(); s := x.Build(); opt(&x) for the variable x
ApplyTo(x) ==
    /\ vars[x] # NoStatement
    /\ Len(added[x]) < MaxApplied
    /\ \E opt \in CopyOptions :
          LET r == ApplyOptions(vars[x], heap, <<opt>>)
          IN /\ vars' = [vars EXCEPT ![x] = r.st]
             /\ heap' = r.heap
             /\ added' = [added EXCEPT ![x] = Append(added[x], opt)]
    /\ before' = [var |-> x, self |-> Build(vars[x]),
                  outer |-> IF vars["outer"] = NoStatement THEN <<>>
                            ELSE Build(vars["outer"])]
    /\ UNCHANGED <<base, out, ret, threadVars>>

\* s := st.Build(); outer := Select(Ref("*"), FromSubselect(st, as))
SelectOuter ==
    /\ vars["st"] # NoStatement
    /\ vars["outer"] = NoStatement
    /\ \E as \in Aliases :
          LET r == Select(Ref(N_star), <<FromSubselect(CaptureStatement("st"), as)>>, heap)
          IN /\ vars' = [vars EXCEPT !["outer"] = r.st]
             /\ heap' = r.heap
    /\ before' = [var |-> "outer", self |-> Build(vars["st"]), outer |-> <<>>]
    /\ UNCHANGED <<base, added, out, ret, threadVars>>

NextCopy ==
    \/ SelectSub
    \/ CopyStatement
    \/ ApplyTo("st")
    \/ ApplyTo("a")
    \/ SelectOuter

SpecCopy == Init /\ [][NextCopy]_vars_all

S_select_star_from == S_select \o SP \o N_star \o SP \o S_from \o SP

\* the alias the from clause of outer gives the subselect
OuterAlias ==
    LET e == ClausesOf(vars["outer"])[1].tables[1]
    IN IF e.t = "as" THEN S_as \o <<"'">> \o e.alias \o <<"'">> ELSE <<>>

\* the string outer.Build() returns when the subselect renders as text
OuterAround(text) == S_select_star_from \o <<"(">> \o text \o <<")">> \o OuterAlias

\* C7 as stated: outer.Build() holds the rendering st.Build() has at that
\* moment, the clauses appended to st after outer was constructed included.
C7_Original ==
    vars["outer"] # NoStatement => Build(vars["outer"]) = OuterAround(Build(vars["st"]))

\* C7 as amended: outer.Build() holds the rendering the subselect had when
\* FromSubselect was called: once outer is constructed it holds the string
\* st.Build() returned then, and applying an option to st afterwards changes
\* st.Build() and leaves outer.Build() as it was.
C7_SubselectSnapshot ==
    /\ before.var = "outer" => Build(vars["outer"]) = OuterAround(before.self)
    /\ (before.var = "st" /\ vars["outer"] # NoStatement) =>
          /\ Build(vars["outer"]) = before.outer
          /\ Build(vars["st"]) # before.self

\* C7 witness: outer was constructed from st with an alias when st held three
\* clauses, and an option was applied to st afterwards.
C7_Witness ==
    /\ vars["outer"] # NoStatement
    /\ OuterAlias # <<>>
    /\ before.var = "st"
    /\ base["st"] = <<OrderBy(<<N_x>>), Where(<<P1>>), Where(<<P1>>)>>
    /\ Build(vars["outer"]) =
           OuterAround(StatementBuild(SelectStatement, <<Ref(N_star)>>, base["st"]))

\* C10: each copy's Build renders exactly the clauses the statement held when
\* it was assigned plus the clauses appended to that copy.
C10_CopiesIndependent ==
    \A x \in {"st", "a"} :
        vars[x] # NoStatement =>
            Build(vars[x]) =
                StatementBuild(vars[x].Kind, vars[x].Expressions, base[x] \o added[x])

============================================================================
